---- MODULE Spec2Model ----
(***************************************************************************)
(* A model of ere (evant/ere): the newline-escaping codec of               *)
(* src/escape_newlines.rs, the temporary-name generator of                 *)
(* src/tempfile_ext.rs and the rename pass of src/main.rs (fn ere).        *)
(*                                                                         *)
(* Names and lines are sequences of bytes; a byte is a one-character       *)
(* string.  Two specifications are given: SpecCodec drives the codec on    *)
(* every byte sequence up to MaxLen, Spec drives one run of ere on a       *)
(* small directory.                                                        *)
(***************************************************************************)
EXTENDS Integers, Sequences, FiniteSets, TLC

\* ------------------------------------------------------------------ bytes
\* b'\n'
NL == "\n"
\* b'\\'
BS == "\\"
\* b'n'
LN == "n"

\* ----------------------------------------------------------------- bounds
\* longest name / line the codec specification enumerates
MaxLen == 3

\* longest line the codec specification decodes on its own
MaxLine == 6

\* the bytes the codec specification builds names and lines from
CodecBytes == {NL, BS, LN, "a"}

\* most entries the scanned directory holds
MaxEntries == 3

\* most lines the editor leaves in the listing
MaxLines == 3

\* most rename calls of one run that fail for a reason outside the model
\* (permissions, a destination that is a non-empty directory, ...)
MaxFaults == 2

\* draws new_tmp_file_name is followed through; stands for NUM_RETRIES (1 << 31)
MaxRetries == 2

\* ------------------------------------------------------- sequence helpers
SeqsUpTo(S, n) == UNION {[1..k -> S] : k \in 0..n}

\* slice.contains(&x)
Contains(s, x) == \E i \in 1..Len(s) : s[i] = x

\* bytes k+1 .. Len(s) of s
Drop(s, k) == SubSeq(s, k + 1, Len(s))

\* str::starts_with(pat)
StartsWith(s, pat) == Len(s) >= Len(pat) /\ SubSeq(s, 1, Len(pat)) = pat

\* str::contains(pat) for a non-empty pattern
ContainsStr(s, pat) == \E i \in 0..(Len(s) - Len(pat)) : StartsWith(Drop(s, i), pat)

\* str::replace(pat, rep): every non-overlapping match, left to right
RECURSIVE Replace(_, _, _)
Replace(s, pat, rep) ==
    IF Len(s) < Len(pat) THEN s
    ELSE IF StartsWith(s, pat) THEN rep \o Replace(Drop(s, Len(pat)), pat, rep)
    ELSE <<Head(s)>> \o Replace(Tail(s), pat, rep)

\* k copies of byte b
RECURSIVE Repeat(_, _)
Repeat(b, k) == IF k <= 0 THEN <<>> ELSE <<b>> \o Repeat(b, k - 1)

\* ------------------------------------------------------------------ codec
\* escape_newlines with a fault: literal backslash-n is widened, real newlines are kept
escape_newlines_keeps_newline(s) ==
    IF ContainsStr(s, <<NL>>) \/ ContainsStr(s, <<BS, LN>>)
    THEN Replace(s, <<BS, LN>>, <<BS, BS, LN>>)
    ELSE s

\* impl EscapeNewlines for String
escape_newlines(s) ==
    IF ContainsStr(s, <<NL>>) \/ ContainsStr(s, <<BS, LN>>)
    THEN Replace(Replace(s, <<BS, LN>>, <<BS, BS, LN>>), <<NL>>, <<BS, LN>>)
    ELSE s

\* Option<Vec<u8>>
None == [some |-> FALSE, v |-> <<>>]
Some(v) == [some |-> TRUE, v |-> v]

\* GetOrInsert with a fault: the pending backslashes are copied too
GetOrInsertWithBackslashes(out, bytes, i, backslash_count) ==
    IF out.some THEN out.v ELSE SubSeq(bytes, 1, i)

\* out.get_or_insert_with(|| bytes[0..i - backslash_count].to_vec()); i is 0-based
GetOrInsert(out, bytes, i, backslash_count) ==
    IF out.some THEN out.v ELSE SubSeq(bytes, 1, i - backslash_count)

\* one iteration of the loop of unescape on byte bytes[i+1] (i is the 0-based
\* index of the source); the state is [count, out]
UnescapeByte(bytes, i, st) ==
    LET byte == bytes[i + 1]
        c == st.count
        out == st.out
    IN  IF byte = BS THEN [count |-> c + 1, out |-> out]
        ELSE IF byte = LN THEN
            IF c = 0 THEN
                [count |-> 0, out |-> IF out.some THEN Some(Append(out.v, LN)) ELSE out]
            ELSE IF c = 1 THEN
                [count |-> 0, out |-> Some(Append(GetOrInsert(out, bytes, i, c), NL))]
            ELSE
                [count |-> 0,
                 out |-> Some(GetOrInsert(out, bytes, i, c) \o Repeat(BS, c - 1) \o <<LN>>)]
        ELSE
            [count |-> 0, out |-> IF out.some THEN Some(Append(out.v, byte)) ELSE out]

\* the loop of unescape over bytes[0..k]; the state after k - 1 bytes is bound
\* as a value, so that it is computed once
RECURSIVE UnescapeLoop(_, _)
UnescapeLoop(bytes, k) ==
    IF k = 0 THEN [count |-> 0, out |-> None]
    ELSE CHOOSE r \in {UnescapeByte(bytes, k - 1, st) :
                            st \in {UnescapeLoop(bytes, k - 1)}} : TRUE

\* NewlineEscaped::unescape
unescape(str) ==
    LET st == UnescapeLoop(str, Len(str))
    IN  IF st.out.some THEN st.out.v ELSE str

\* ------------------------------------------------------ tempfile_ext.rs
NUM_RAND_CHARS == 6

\* the prefix new_tmp_file_name passes to tmpname: ".tmp"
TmpPrefix == <<".", "t", "m", "p">>

\* the characters fastrand::alphanumeric is followed through; one draw of
\* tmpname repeats one of them NUM_RAND_CHARS times
AlnumSample == {"x", "y"}

\* fn tmpname(prefix, rand_len), for the random character c
tmpname(prefix, rand_len, c) == prefix \o Repeat(c, rand_len)

\* every name tmpname(".tmp", NUM_RAND_CHARS) is followed to
TmpNames == {tmpname(TmpPrefix, NUM_RAND_CHARS, c) : c \in AlnumSample}

Ok(v) == [ok |-> TRUE, v |-> v]
Err(e) == [ok |-> FALSE, v |-> e]

\* new_tmp_file_name with a fault: the candidate is not checked against file_names
new_tmp_file_name_unchecked(file_names, retries) ==
    {Ok(c) : c \in TmpNames}

\* fn new_tmp_file_name(file_names): the results of a loop of `retries` draws
RECURSIVE new_tmp_file_name(_, _)
new_tmp_file_name(file_names, retries) ==
    IF retries = 0 THEN {Err(<<"AlreadyExists">>)}
    ELSE UNION {IF ~Contains(file_names, c) THEN {Ok(c)}
                ELSE new_tmp_file_name(file_names, retries - 1) : c \in TmpNames}

\* ------------------------------------------------------------- path_ext.rs
\* PathExt::is_hidden
is_hidden(name) == StartsWith(name, <<".">>)

\* ----------------------------------------------------------------- main.rs
\* the names a scanned directory may hold
TmpX == tmpname(TmpPrefix, NUM_RAND_CHARS, "x")
DirNames == {<<"a">>, <<"b">>, <<"c", NL>>, TmpX}

\* the lines the editor may leave in the listing
EditLines == {<<"a">>, <<"b">>, <<"c", BS, LN>>, TmpX, <<"#">>}

\* every path of the directory the run may touch
AllNames == DirNames \cup TmpNames \cup {unescape(l) : l \in EditLines}

\* no entry at a path
NoEntry == <<"-">>
\* the listing file does not exist
NoFile == <<"no file">>

\* the orderings of a finite set
RECURSIVE Orderings(_)
Orderings(S) ==
    IF S = {} THEN {<<>>}
    ELSE UNION {{<<x>> \o o : o \in Orderings(S \ {x})} : x \in S}

\* fn read_file_names_from_dir: the entries WalkDir yields, in any order
read_file_names_from_dir(d, include_hidden) ==
    Orderings({n \in d : include_hidden \/ ~is_hidden(n)})

\* writeln!(writer, "{}", line) for each line
RECURSIVE WriteLines(_)
WriteLines(ls) ==
    IF ls = <<>> THEN <<>>
    ELSE Head(ls) \o <<NL>> \o WriteLines(Tail(ls))

\* the two comment lines and the blank line ere writes first (lines 67-72),
\* shortened to their first byte
Header == <<"#", NL, "#", NL, NL>>

\* ere, lines 67-76: the listing
Listing(names) ==
    Header \o WriteLines([i \in 1..Len(names) |-> escape_newlines(names[i])])

\* BufRead::lines: split at newline bytes; a last line without one is a line
RECURSIVE Lines(_, _)
Lines(content, cur) ==
    IF content = <<>> THEN (IF cur = <<>> THEN <<>> ELSE <<cur>>)
    ELSE IF Head(content) = NL THEN <<cur>> \o Lines(Tail(content), <<>>)
    ELSE Lines(Tail(content), Append(cur, Head(content)))

\* LineKept with a fault: comment lines are kept
LineKeptWithComments(line) == line # <<>>

\* parse_file_names' filter: !line.is_empty() && !line.starts_with("#")
LineKept(line) == line # <<>> /\ ~StartsWith(line, <<"#">>)

RECURSIVE Filter(_)
Filter(ls) ==
    IF ls = <<>> THEN <<>>
    ELSE IF LineKept(Head(ls)) THEN <<Head(ls)>> \o Filter(Tail(ls))
    ELSE Filter(Tail(ls))

\* fn parse_file_names
parse_file_names(content) == Filter(Lines(content, <<>>))

\* the lines of a file that are not empty and do not start with '#', counted
KeptCount(content) ==
    LET ls == Lines(content, <<>>)
    IN  Cardinality({i \in 1..Len(ls) : ls[i] # <<>> /\ ls[i][1] # "#"})

\* the names the kept lines of a file decode to (ere, lines 85 and 100)
Decoded(content) ==
    LET ls == parse_file_names(content)
    IN  [i \in 1..Len(ls) |-> unescape(ls[i])]

\* what the editor may leave in the file: the listing untouched, or any
\* MaxLines or fewer lines of EditLines
Edited(content) ==
    {content} \cup {WriteLines(ls) : ls \in SeqsUpTo(EditLines, MaxLines)}

\* std::fs::rename succeeding: the entry moves, replacing what was at `to`
Renamed(f, from, to) ==
    IF from = to THEN f
    ELSE [f EXCEPT ![to] = f[from], ![from] = NoEntry]

\* exit statuses the editor is followed through
ExitCodes == {0, 1}

\* success with a fault: every exit status counts as success
success_always(status) == TRUE

\* ExitStatus::success
success(status) == status = 0

\* CountMismatch with a fault: only missing lines are noticed
CountMismatchFewer(names, new_names) == Len(new_names) < Len(names)

\* ere, line 89: file_names.len() != new_file_names.len()
CountMismatch(names, new_names) == Len(names) # Len(new_names)

\* SameName with a fault: no pair is skipped
SameNameNever(file_name, new_file_name) == FALSE

\* ere, line 101: file_name == new_file_name
SameName(file_name, new_file_name) == file_name = new_file_name

\* PushFailure with a fault: only the first failure is kept
PushFailureFirst(fl, ok, err) == IF ok \/ fl # <<>> THEN fl ELSE Append(fl, err)

\* ere, lines 111-112, 124-125, 134-135: if let Err(source) = rename(..) { failures.push(..) }
PushFailure(fl, ok, err) == IF ok THEN fl ELSE Append(fl, err)

\* NeedsTemp with a fault: every rename is direct
NeverNeedsTemp(pending, new_file_name) == FALSE

\* ere, line 106: file_names.contains(&new_file_name)
NeedsTemp(pending, new_file_name) == Contains(pending, new_file_name)

\* PushTemp with a fault: the pair is staged even when its rename failed
PushTempAlways(tfn, ok, e) == Append(tfn, e)

\* ere, lines 110-116: temp_file_names.push(..) in the else branch of the rename
PushTemp(tfn, ok, e) == IF ok THEN Append(tfn, e) ELSE tfn

\* FirstPassOver with a fault: the second pass does not wait for the first
FirstPassOverEarly(pending) == TRUE

\* ere, lines 98, 131: the for loop follows the while !file_names.is_empty() loop
FirstPassOver(pending) == pending = <<>>

\* -------------------------------------------------------------- variables
VARIABLES
    cpc,        \* codec run: "input", "escaped", "done", "unescaped"; "off" under Spec
    s1, s2,     \* codec run: two names
    e1, e2,     \* codec run: escape_newlines(s1), escape_newlines(s2)
    u1,         \* codec run: unescape(e1), or unescape(s1) read as a line
    pc,         \* ere: "start", "edit", "parse", "rename", "done"; "off" under SpecCodec
    dir,        \* the names the directory held when ere started
    all,        \* args.all
    fs,         \* the directory: path -> the entry at it (named by its first path)
    listing,    \* the content of the listing file, or NoFile
    file_names,         \* ere's file_names
    new_file_names,     \* ere's new_file_names (escaped lines)
    temp_file_names,    \* ere's temp_file_names: <<temp, new>> pairs
    failures,           \* ere's failures
    result,             \* what ere returned: "Ok", "EditorStatus", "CountMismatch", "Group"
    orig,       \* history: file_names as scanned
    ed,         \* the editor's exit status: <<>> before it ran, then <<status>>
    edited,     \* history: the content the editor left in the listing
    kept,       \* history: how many lines of it are neither empty nor comments
    targets,    \* history: T, the names its kept lines decode to
    log,        \* history: the rename calls and failed name generations, in order
    staged,     \* history: for each element of temp_file_names, its pair's position
    faults      \* rename calls failed for a reason outside the model

cvars == <<cpc, s1, s2, e1, e2, u1>>

evars == <<pc, dir, all, fs, listing, file_names, new_file_names, temp_file_names,
           failures, result, orig, ed, edited, kept, targets, log, staged, faults>>

vars == <<cvars, evars>>

\* the ere variables while the codec runs
EreOff ==
    /\ pc = "off"
    /\ dir = {}
    /\ all = FALSE
    /\ fs = [n \in AllNames |-> NoEntry]
    /\ listing = NoFile
    /\ file_names = <<>>
    /\ new_file_names = <<>>
    /\ temp_file_names = <<>>
    /\ failures = <<>>
    /\ result = "none"
    /\ orig = <<>>
    /\ ed = <<>>
    /\ edited = NoFile
    /\ kept = 0
    /\ targets = <<>>
    /\ log = <<>>
    /\ staged = <<>>
    /\ faults = 0

\* the codec variables while ere runs
CodecOff ==
    /\ cpc = "off"
    /\ s1 = <<>>
    /\ s2 = <<>>
    /\ e1 = <<>>
    /\ e2 = <<>>
    /\ u1 = <<>>

\* ---------------------------------------------------- codec specification
CodecNames == SeqsUpTo(CodecBytes, MaxLen)
CodecLines == SeqsUpTo(CodecBytes, MaxLine)

\* a pair of names up to MaxLen, or one name or line up to MaxLine
CodecInit ==
    /\ cpc = "input"
    /\ \/ s1 \in CodecNames /\ s2 \in CodecNames
       \/ s1 \in CodecLines /\ Len(s1) > MaxLen /\ s2 = <<>>
    /\ e1 = <<>>
    /\ e2 = <<>>
    /\ u1 = <<>>
    /\ EreOff

\* file_name.escape_newlines(), for both names
Escape ==
    /\ cpc = "input"
    /\ e1' = escape_newlines(s1)
    /\ e2' = escape_newlines(s2)
    /\ cpc' = "escaped"
    /\ UNCHANGED <<s1, s2, u1, evars>>

\* escaped.unescape()
Unescape ==
    /\ cpc = "escaped"
    /\ u1' = unescape(e1)
    /\ cpc' = "done"
    /\ UNCHANGED <<s1, s2, e1, e2, evars>>

\* NewlineEscaped::new(line).unescape(): s1 read as a line of the listing
\* (BufRead::lines yields no line with a newline byte in it)
UnescapeLine ==
    /\ cpc = "input"
    /\ ~Contains(s1, NL)
    /\ u1' = unescape(s1)
    /\ cpc' = "unescaped"
    /\ UNCHANGED <<s1, s2, e1, e2, evars>>

CodecNext == Escape \/ Unescape \/ UnescapeLine

SpecCodec == CodecInit /\ [][CodecNext]_vars


\* ------------------------------------------------------ ere specification
Init ==
    /\ CodecOff
    /\ pc = "start"
    /\ dir \in {d \in SUBSET DirNames : Cardinality(d) <= MaxEntries}
    /\ all \in BOOLEAN
    /\ fs = [n \in AllNames |-> IF n \in dir THEN n ELSE NoEntry]
    /\ listing = NoFile
    /\ file_names = <<>>
    /\ new_file_names = <<>>
    /\ temp_file_names = <<>>
    /\ failures = <<>>
    /\ result = "none"
    /\ orig = <<>>
    /\ ed = <<>>
    /\ edited = NoFile
    /\ kept = 0
    /\ targets = <<>>
    /\ log = <<>>
    /\ staged = <<>>
    /\ faults = 0

\* ere, lines 62-78: scan the directory and write the listing
WriteListing ==
    /\ pc = "start"
    /\ \E names \in read_file_names_from_dir(dir, all) :
        /\ file_names' = names
        /\ orig' = names
        /\ listing' = Listing(names)
    /\ pc' = "edit"
    /\ UNCHANGED <<cvars, dir, all, fs, new_file_names, temp_file_names, failures,
                   result, ed, edited, kept, targets, log, staged, faults>>

\* ere, lines 80-83: the editor runs; its exit status decides whether ere goes on
Edit ==
    /\ pc = "edit"
    /\ \E status \in ExitCodes, content \in Edited(listing) :
        /\ ed' = <<status>>
        /\ edited' = content
        /\ kept' = KeptCount(content)
        /\ targets' = Decoded(content)
        /\ IF success(status)
           THEN /\ listing' = content
                /\ pc' = "parse"
                /\ result' = result
           ELSE /\ listing' = NoFile
                /\ pc' = "done"
                /\ result' = "EditorStatus"
    /\ UNCHANGED <<cvars, dir, all, fs, file_names, new_file_names, temp_file_names,
                   failures, orig, log, staged, faults>>

\* ere, lines 85-91: parse the listing and drop it; the counts differ
ParseCountMismatch ==
    /\ pc = "parse"
    /\ CountMismatch(file_names, parse_file_names(listing))
    /\ new_file_names' = parse_file_names(listing)
    /\ listing' = NoFile
    /\ result' = "CountMismatch"
    /\ pc' = "done"
    /\ UNCHANGED <<cvars, dir, all, fs, file_names, temp_file_names, failures, orig,
                   ed, edited, kept, targets, log, staged, faults>>

\* ere, lines 85-96: parse the listing and drop it; the counts agree
ParseCountMatches ==
    /\ pc = "parse"
    /\ ~CountMismatch(file_names, parse_file_names(listing))
    /\ new_file_names' = parse_file_names(listing)
    /\ listing' = NoFile
    /\ pc' = "rename"
    /\ UNCHANGED <<cvars, dir, all, fs, file_names, temp_file_names, failures, result,
                   orig, ed, edited, kept, targets, log, staged, faults>>

\* the pair the loop takes next: the last of both lists (lines 99-100)
Last(s) == s[Len(s)]

\* Front with a fault: the pair is read and not removed
FrontKept(s) == s

Front(s) == SubSeq(s, 1, Len(s) - 1)

\* one rename call: whether it succeeds.  It fails when nothing is at `from`,
\* or, when `fault`, for a reason outside the model
RenameSucceeds(f, from, fault) == f[from] # NoEntry /\ ~fault

FaultAllowed(f, from, fault) == fault => (faults < MaxFaults /\ f[from] # NoEntry)

\* Error::Rename { from, to, source }
RenameError(from, to) == [kind |-> "Rename", from |-> from, to |-> to]
\* Error::Io(source)
IoError == [kind |-> "Io", from |-> <<>>, to |-> <<>>]

\* ere, lines 99-103: the pair's names are equal
LoopSame ==
    /\ pc = "rename"
    /\ file_names # <<>>
    /\ SameName(Last(file_names), unescape(Last(new_file_names)))
    /\ file_names' = Front(file_names)
    /\ new_file_names' = Front(new_file_names)
    /\ UNCHANGED <<cvars, pc, dir, all, fs, listing, temp_file_names, failures, result,
                   orig, ed, edited, kept, targets, log, staged, faults>>

\* ere, lines 99-116: the new name is a pending one, a temporary name is drawn
LoopTemp ==
    /\ pc = "rename"
    /\ file_names # <<>>
    /\ LET file_name == Last(file_names)
           new_file_name == unescape(Last(new_file_names))
           pending == Front(file_names)
       IN  /\ ~SameName(file_name, new_file_name)
           /\ NeedsTemp(pending, new_file_name)
           /\ \E r \in new_tmp_file_name(pending, MaxRetries), fault \in BOOLEAN :
                LET ok == RenameSucceeds(fs, file_name, fault)
                IN  /\ r.ok
                    /\ FaultAllowed(fs, file_name, fault)
                    /\ fs' = IF ok THEN Renamed(fs, file_name, r.v) ELSE fs
                    /\ failures' = PushFailure(failures, ok, RenameError(file_name, r.v))
                    /\ temp_file_names' = PushTemp(temp_file_names, ok,
                                                   <<r.v, new_file_name>>)
                    /\ staged' = PushTemp(staged, ok, Len(file_names))
                    /\ log' = Append(log, [kind |-> "temp", pair |-> Len(file_names),
                                           from |-> file_name, to |-> r.v, ok |-> ok])
                    /\ faults' = IF fault THEN faults + 1 ELSE faults
           /\ file_names' = pending
           /\ new_file_names' = Front(new_file_names)
    /\ UNCHANGED <<cvars, pc, dir, all, listing, result, orig, ed, edited, kept, targets>>

\* ere, lines 99-108, 117-119: the new name is a pending one, no temporary name
LoopTempExhausted ==
    /\ pc = "rename"
    /\ file_names # <<>>
    /\ LET file_name == Last(file_names)
           new_file_name == unescape(Last(new_file_names))
           pending == Front(file_names)
       IN  /\ ~SameName(file_name, new_file_name)
           /\ NeedsTemp(pending, new_file_name)
           /\ \E r \in new_tmp_file_name(pending, MaxRetries) : ~r.ok
           /\ failures' = Append(failures, IoError)
           /\ log' = Append(log, [kind |-> "tmpname", pair |-> Len(file_names),
                                  from |-> file_name, to |-> <<>>, ok |-> FALSE])
           /\ file_names' = pending
           /\ new_file_names' = Front(new_file_names)
    /\ UNCHANGED <<cvars, pc, dir, all, fs, listing, temp_file_names, result, orig,
                   ed, edited, kept, targets, staged, faults>>

\* ere, lines 99-105, 121-127: the new name is no pending one, rename directly
LoopDirect ==
    /\ pc = "rename"
    /\ file_names # <<>>
    /\ LET file_name == Last(file_names)
           new_file_name == unescape(Last(new_file_names))
           pending == Front(file_names)
       IN  /\ ~SameName(file_name, new_file_name)
           /\ ~NeedsTemp(pending, new_file_name)
           /\ \E fault \in BOOLEAN :
                LET ok == RenameSucceeds(fs, file_name, fault)
                IN  /\ FaultAllowed(fs, file_name, fault)
                    /\ fs' = IF ok THEN Renamed(fs, file_name, new_file_name) ELSE fs
                    /\ failures' = PushFailure(failures, ok,
                                                RenameError(file_name, new_file_name))
                    /\ log' = Append(log, [kind |-> "direct", pair |-> Len(file_names),
                                           from |-> file_name, to |-> new_file_name,
                                           ok |-> ok])
                    /\ faults' = IF fault THEN faults + 1 ELSE faults
           /\ file_names' = pending
           /\ new_file_names' = Front(new_file_names)
    /\ UNCHANGED <<cvars, pc, dir, all, listing, temp_file_names, result, orig, ed,
                   edited, kept, targets, staged>>

\* ere, lines 131-137: the next temporary name is renamed to its final name
SecondPass ==
    /\ pc = "rename"
    /\ FirstPassOver(file_names)
    /\ temp_file_names # <<>>
    /\ LET temp_file_name == Head(temp_file_names)[1]
           new_file_name == Head(temp_file_names)[2]
       IN  \E fault \in BOOLEAN :
                LET ok == RenameSucceeds(fs, temp_file_name, fault)
                IN  /\ FaultAllowed(fs, temp_file_name, fault)
                    /\ fs' = IF ok THEN Renamed(fs, temp_file_name, new_file_name) ELSE fs
                    /\ failures' = PushFailure(failures, ok,
                                                RenameError(temp_file_name, new_file_name))
                    /\ log' = Append(log, [kind |-> "final", pair |-> Head(staged),
                                           from |-> temp_file_name, to |-> new_file_name,
                                           ok |-> ok])
                    /\ faults' = IF fault THEN faults + 1 ELSE faults
    /\ temp_file_names' = Tail(temp_file_names)
    /\ staged' = Tail(staged)
    /\ UNCHANGED <<cvars, pc, dir, all, listing, file_names, new_file_names, result,
                   orig, ed, edited, kept, targets>>

\* ere, lines 139-143: the result
Return ==
    /\ pc = "rename"
    /\ file_names = <<>>
    /\ temp_file_names = <<>>
    /\ result' = IF failures # <<>> THEN "Group" ELSE "Ok"
    /\ pc' = "done"
    /\ UNCHANGED <<cvars, dir, all, fs, listing, file_names, new_file_names,
                   temp_file_names, failures, orig, ed, edited, kept, targets, log, staged, faults>>

Next ==
    \/ WriteListing
    \/ Edit
    \/ ParseCountMismatch
    \/ ParseCountMatches
    \/ LoopSame
    \/ LoopTemp
    \/ LoopTempExhausted
    \/ LoopDirect
    \/ SecondPass
    \/ Return

Spec == Init /\ [][Next]_vars

\* ere, lines 98-143: the steps of the rename pass
RenamePass ==
    \/ LoopSame
    \/ LoopTemp
    \/ LoopTempExhausted
    \/ LoopDirect
    \/ SecondPass
    \/ Return

\* the rename pass runs on: it waits for nothing, so a step of it that can be
\* taken is taken
SpecFair == Spec /\ WF_vars(RenamePass)


\* ------------------------------------------------------------ properties
\* the number of positions of s holding byte b
Count(s, b) == Cardinality({i \in 1..Len(s) : s[i] = b})

\* the number of places of s where a backslash is directly followed by 'n'
CountLiteral(s) ==
    Cardinality({i \in 1..(Len(s) - 1) : s[i] = BS /\ s[i + 1] = LN})

\* C1: round trip.  For every name s1, unescape(escape_newlines(s1)) = s1.
C1_RoundTrip == cpc = "done" => u1 = s1

\* C2: escape_newlines is injective.  Two distinct names never escape to the
\* same line.
C2_Injective == (cpc \in {"escaped", "done"} /\ s1 # s2) => e1 # e2

\* C3: the escaped name holds no raw newline byte; every newline of the name
\* became the two bytes backslash, 'n' (the line is longer than the name by one
\* byte per newline and one per widened literal backslash-n), and written with
\* writeln! it is read back as exactly one line.
C3_NoRawNewline ==
    cpc \in {"escaped", "done"} =>
        /\ ~Contains(e1, NL)
        /\ Len(e1) = Len(s1) + Count(s1, NL) + CountLiteral(s1)
        /\ Count(e1, BS) = Count(s1, BS) + Count(s1, NL) + CountLiteral(s1)
        /\ Lines(WriteLines(<<e1>>), <<>>) = <<e1>>

\* C3's case: a name with a raw newline and a literal backslash-n was escaped
C3_Witness ==
    /\ cpc = "escaped"
    /\ Contains(s1, NL)
    /\ ContainsStr(s1, <<BS, LN>>)


\* ---- the run of ere, as the properties below read it
\* the directory as ere found it
Fs0 == [n \in AllNames |-> IF n \in dir THEN n ELSE NoEntry]

\* the editor exited with status 0 and the counts agreed: the rename pass runs
Renaming == ed = <<0>> /\ pc \in {"rename", "done"} /\ result # "CountMismatch"

\* the rename pass is over
Finished == Renaming /\ pc = "done"

\* T: the target names, decoded from the lines the editor left
Targets == targets

Distinct(s) == \A i, j \in 1..Len(s) : i # j => s[i] # s[j]

\* the positions of the log that hold an entry of pair i of one of the kinds
LogOf(i, kinds) == {k \in 1..Len(log) : log[k].pair = i /\ log[k].kind \in kinds}

AllSucceeded == \A k \in 1..Len(log) : log[k].ok

\* C4: relabeling correctness.  With O and T of equal length, distinct names in
\* each, no target naming an entry outside the batch and every rename call (and
\* name generation) succeeding, the entry first at O[i] ends at T[i], for every
\* i and whatever temporary names were drawn.
C4_Relabeled ==
    (/\ Finished
     /\ Distinct(Targets)
     /\ \A i \in 1..Len(orig) : Targets[i] \in dir => Contains(orig, Targets[i])
     /\ AllSucceeded)
    => \A i \in 1..Len(orig) : fs[Targets[i]] = orig[i]

\* the position of the entry e in O
PairOf(e) == CHOOSE i \in 1..Len(orig) : orig[i] = e

\* C5: no destruction under partial failure.  With distinct target names, no
\* rename call is issued whose destination is occupied by another entry of the
\* batch that is not at its own target name.
C5_NoOverwrite ==
    [][(/\ Renaming
        /\ Distinct(Targets)
        /\ Len(log') = Len(log) + 1
        /\ Last(log').kind # "tmpname")
       => LET c == Last(log')
              e == fs[c.to]
          IN  ~(/\ e # NoEntry
                /\ Contains(orig, e)
                /\ e # fs[c.from]
                /\ c.to # Targets[PairOf(e)])]_vars

\* C6: count mismatch aborts cleanly.  When the editor succeeded and the number
\* of non-comment, non-blank lines it left differs from the number of entries,
\* ere issues no rename, leaves the directory as it was and returns
\* CountMismatch; it returns CountMismatch in no other case.
C6_CountMismatch ==
    /\ (ed = <<0>> /\ kept # Len(orig)) =>
            /\ pc \in {"parse", "done"}
            /\ pc = "done" => result = "CountMismatch"
            /\ log = <<>>
            /\ failures = <<>>
            /\ fs = Fs0
    /\ result = "CountMismatch" => (ed = <<0>> /\ kept # Len(orig))

\* C6's case: the editor deleted one of three lines and ere returned
\* CountMismatch
C6_Witness ==
    /\ result = "CountMismatch"
    /\ Len(orig) = 3
    /\ kept = 2
    /\ Len(Lines(edited, <<>>)) = 2

\* Error::Rename / Error::Io as the failed attempt c is recorded
ErrorOf(c) == IF c.kind = "tmpname" THEN IoError ELSE RenameError(c.from, c.to)

FailedAttempts == SelectSeq(log, LAMBDA c : ~c.ok)

\* C7: partial failure is aggregated.  Every pair with O[i] # T[i] gets exactly
\* one first-pass attempt and every staged pair exactly one second-pass rename,
\* whatever failed before; failures holds exactly one entry per failed attempt,
\* in the order of the attempts, all first-pass ones before all second-pass
\* ones; ere returns Ok exactly when no attempt failed and Group otherwise.
C7_Aggregated ==
    Finished =>
        /\ \A i \in 1..Len(orig) :
            /\ Cardinality(LogOf(i, {"temp", "direct", "tmpname"}))
                    = IF orig[i] # Targets[i] THEN 1 ELSE 0
            /\ Cardinality(LogOf(i, {"final"}))
                    = Cardinality({k \in LogOf(i, {"temp"}) : log[k].ok})
        /\ Len(failures) = Len(FailedAttempts)
        /\ \A k \in 1..Len(failures) : failures[k] = ErrorOf(FailedAttempts[k])
        /\ \A j, k \in 1..Len(log) :
                (j < k /\ log[j].kind = "final") => log[k].kind = "final"
        /\ (result = "Ok") <=> AllSucceeded
        /\ (result = "Group") <=> ~AllSucceeded

\* C7's case: a first-pass and a second-pass rename failed, and renames issued
\* after the first failure succeeded
C7_Witness ==
    /\ Finished
    /\ Len(failures) = 2
    /\ \E j, k, l \in 1..Len(log) :
        /\ j < k /\ k < l
        /\ ~log[j].ok /\ log[j].kind = "direct"
        /\ log[k].ok
        /\ ~log[l].ok /\ log[l].kind = "final"
    /\ \E k \in 1..Len(log) : log[k].ok /\ log[k].kind = "final"

\* O = [a, b], T = [b, a], and every rename succeeded
SwapDone ==
    /\ Finished
    /\ orig = <<(<<"a">>), (<<"b">>)>>
    /\ Targets = <<(<<"b">>), (<<"a">>)>>
    /\ AllSucceeded

Swapped == fs[<<"a">>] = <<"b">> /\ fs[<<"b">>] = <<"a">>

\* C8 as claimed: after the pairwise swap both entries are swapped and both
\* were staged: two renames to temporary names, two second-pass renames.
C8_SwapBothStaged ==
    SwapDone =>
        /\ Swapped
        /\ Cardinality(LogOf(1, {"temp"})) = 1
        /\ Cardinality(LogOf(2, {"temp"})) = 1
        /\ Cardinality(LogOf(1, {"final"}) \cup LogOf(2, {"final"})) = 2

\* C8 as amended: after the pairwise swap both entries are swapped; only b, the
\* pair taken first, was staged: b is renamed to a temporary name, then a is
\* renamed directly to b (no pending name is left to collide with), and the
\* second pass renames the temporary name to a.
C8_SwapOneStaged ==
    SwapDone =>
        /\ Swapped
        /\ Len(log) = 3
        /\ log[1].kind = "temp" /\ log[1].pair = 2
        /\ log[1].from = <<"b">> /\ log[1].to \in TmpNames
        /\ log[2].kind = "direct" /\ log[2].pair = 1
        /\ log[2].from = <<"a">> /\ log[2].to = <<"b">>
        /\ log[3].kind = "final" /\ log[3].pair = 2
        /\ log[3].from = log[1].to /\ log[3].to = <<"a">>

\* C8's case: the swap was carried out
C8_Witness == SwapDone /\ Len(log) > 0

\* C9: identity is a no-op.  A pair whose names are equal (O[i] = unescape of
\* its line) causes no rename call and no failed attempt; when every pair is
\* such, ere issues no rename at all, leaves the directory as it was and
\* returns Ok.
C9_IdentityNoOp ==
    Renaming =>
        /\ \A i \in 1..Len(orig) :
                orig[i] = Targets[i] =>
                    LogOf(i, {"temp", "direct", "final", "tmpname"}) = {}
        /\ (\A i \in 1..Len(orig) : orig[i] = Targets[i]) =>
                /\ log = <<>>
                /\ failures = <<>>
                /\ fs = Fs0
                /\ pc = "done" => result = "Ok"

\* C9's case: a run is over in which the entry with a newline in its name kept
\* its name (its line was the escaped name) while another entry was renamed
C9_Witness ==
    /\ Finished
    /\ \E i, j \in 1..Len(orig) :
        /\ orig[i] = <<"c", NL>>
        /\ orig[i] = Targets[i]
        /\ orig[j] # Targets[j]
        /\ LogOf(j, {"direct"}) # {}

\* C10: when the editor exits with a non-zero status ere returns EditorStatus
\* at once: the file is not parsed, no rename is issued, the directory is as it
\* was.  EditorStatus is returned in no other case.
C10_EditorStatus ==
    /\ (ed # <<>> /\ ed # <<0>>) =>
            /\ pc = "done"
            /\ result = "EditorStatus"
            /\ new_file_names = <<>>
            /\ log = <<>>
            /\ failures = <<>>
            /\ fs = Fs0
    /\ result = "EditorStatus" => (ed # <<>> /\ ed # <<0>>)

\* C10's case: the editor rewrote the listing of a directory with entries and
\* exited with a non-zero status
C10_Witness ==
    /\ result = "EditorStatus"
    /\ Len(orig) = 2
    /\ edited # Listing(orig)
    /\ kept = 2


\* the lines of a file that are neither empty nor comments, in the file's order
KeptLines(content) ==
    LET ls == Lines(content, <<>>)
        idx == {i \in 1..Len(ls) : ls[i] # <<>> /\ ls[i][1] # "#"}
        Nth(k) == CHOOSE i \in idx : Cardinality({j \in idx : j <= i}) = k
    IN  [k \in 1..Cardinality(idx) |-> ls[Nth(k)]]

BackslashRun(s, k) == Cardinality({j \in 1..k : \A m \in j..k : s[m] = BS})

\* C12: unescape keeps the backslashes that no 'n' follows.  Where a line ends
\* in a run of backslashes, or in such a run (maybe empty) and a byte other than
\* 'n', its decoding is the decoding of what precedes the run, then the run and
\* the byte as they are, whatever was decoded before them.
C12_BackslashesKept ==
    (cpc = "unescaped" /\ s1 # <<>> /\ Last(s1) # LN) =>
        LET n == Len(s1)
            c == IF s1[n] = BS THEN BackslashRun(s1, n) ELSE BackslashRun(s1, n - 1)
            len == IF s1[n] = BS THEN c ELSE c + 1
        IN  u1 = unescape(SubSeq(s1, 1, n - len)) \o SubSeq(s1, n - len + 1, n)

\* C13: unescape decodes an 'n' by the number c of backslashes right before it.
\* Where a line ends in c backslashes and 'n', its decoding is the decoding of
\* what precedes them, then 'n' (c = 0), one newline (c = 1) or c - 1
\* backslashes and 'n' (c > 1); as this holds of every line, the count starts
\* from zero again after the 'n'.
C13_NDecoded ==
    (cpc = "unescaped" /\ s1 # <<>> /\ Last(s1) = LN) =>
        LET n == Len(s1)
            c == BackslashRun(s1, n - 1)
        IN  u1 = unescape(SubSeq(s1, 1, n - 1 - c))
                    \o (IF c = 0 THEN <<LN>>
                        ELSE IF c = 1 THEN <<NL>>
                        ELSE [i \in 1..c |-> IF i < c THEN BS ELSE LN])

\* C13's case: a widened backslash-n was decoded after an escaped newline, which
\* itself came after a byte that had only been skipped until then
C13_Witness ==
    /\ cpc = "unescaped"
    /\ s1 = <<"a", BS, LN, BS, BS, LN>>
    /\ u1 = <<"a", NL, BS, LN>>


\* the first pass is over and the second has not begun
EndOfFirstPass ==
    /\ Renaming
    /\ pc = "rename"
    /\ file_names = <<>>
    /\ \A k \in 1..Len(log) : log[k].kind # "final"

\* the names of the batch: every original and every target name
BatchNames == {orig[i] : i \in 1..Len(orig)} \cup {Targets[i] : i \in 1..Len(Targets)}

\* C14: private staging names.  With distinct target names and every rename
\* (and name generation) succeeding, when the first pass is over every entry of
\* the batch is at its target name, or at a temporary name that is no name of
\* the batch and that it alone was staged at.
C14_PrivateStaging ==
    (EndOfFirstPass /\ Distinct(Targets) /\ AllSucceeded) =>
        \A i \in 1..Len(orig) :
            \/ fs[Targets[i]] = orig[i]
            \/ \E k \in 1..Len(temp_file_names) :
                /\ staged[k] = i
                /\ fs[temp_file_names[k][1]] = orig[i]
                /\ temp_file_names[k][1] \notin BatchNames
                /\ \A l \in 1..Len(temp_file_names) :
                        l # k => temp_file_names[l][1] # temp_file_names[k][1]


\* the pairs the loop has taken from the pending list
Taken == (Len(file_names) + 1)..Len(orig)

\* the pending list at the collision check of pair i: the pairs before it
PendingAt(i) == SubSeq(orig, 1, i - 1)

FirstPassKinds == {"temp", "direct", "tmpname"}

\* the pairs are taken last first, each at most once, and a taken pair with
\* o # t whose target is no pending original name is renamed directly to t
TakenLastFirst ==
    /\ file_names = SubSeq(orig, 1, Len(file_names))
    /\ \A j, k \in 1..Len(log) :
            (j < k /\ log[k].kind \in FirstPassKinds) => log[j].pair > log[k].pair
    /\ \A i \in Taken :
            orig[i] # Targets[i] =>
                /\ Cardinality(LogOf(i, FirstPassKinds)) = 1
                /\ ~Contains(PendingAt(i), Targets[i]) =>
                        \A k \in LogOf(i, FirstPassKinds) :
                            /\ log[k].kind = "direct"
                            /\ log[k].from = orig[i]
                            /\ log[k].to = Targets[i]

\* C15 as stated: a taken pair with o # t is renamed to a temporary name
\* exactly when t is the original name of a pair pending at that moment.
C15_StagedIffPending ==
    Renaming =>
        /\ TakenLastFirst
        /\ \A i \in Taken :
            (orig[i] # Targets[i] /\ Contains(PendingAt(i), Targets[i])) =>
                \A k \in LogOf(i, FirstPassKinds) :
                    /\ log[k].kind = "temp"
                    /\ log[k].from = orig[i]
                    /\ log[k].to \in TmpNames

\* C15, amended: a taken pair with o # t whose target is a pending original
\* name is renamed to a temporary name, or not renamed at all when no temporary
\* name could be generated; any other pair with o # t is renamed directly to t.
C15_StagingRule ==
    Renaming =>
        /\ TakenLastFirst
        /\ \A i \in Taken :
            (orig[i] # Targets[i] /\ Contains(PendingAt(i), Targets[i])) =>
                \A k \in LogOf(i, FirstPassKinds) :
                    \/ /\ log[k].kind = "temp"
                       /\ log[k].from = orig[i]
                       /\ log[k].to \in TmpNames
                    \/ /\ log[k].kind = "tmpname"
                       /\ \E c \in TmpNames : Contains(PendingAt(i), c)

\* C15's case: of three pairs the last was renamed to a temporary name, the
\* middle one could get no temporary name, and the first was renamed directly
C15_Witness ==
    /\ Finished
    /\ Len(log) >= 3
    /\ log[1].kind = "temp" /\ log[1].pair = 3 /\ log[1].ok
    /\ log[2].kind = "tmpname" /\ log[2].pair = 2
    /\ log[3].kind = "direct" /\ log[3].pair = 1 /\ log[3].ok


\* the second-pass renames issued so far, and the successful stagings, in order
Finals == SelectSeq(log, LAMBDA c : c.kind = "final")
Stagings == SelectSeq(log, LAMBDA c : c.kind = "temp" /\ c.ok)

\* C16: phase ordering.  A temp-to-target rename is issued only once the
\* pending list is empty; every first-pass rename precedes every second-pass
\* rename; the second pass renames the staged pairs in the order of staging,
\* each from its temporary name to its target.
C16_PhaseOrder ==
    Renaming =>
        /\ Finals # <<>> => file_names = <<>>
        /\ \A j, k \in 1..Len(log) :
                (j < k /\ log[j].kind = "final") => log[k].kind = "final"
        /\ Len(Finals) <= Len(Stagings)
        /\ \A k \in 1..Len(Finals) :
                /\ Finals[k].pair = Stagings[k].pair
                /\ Finals[k].from = Stagings[k].to
                /\ Finals[k].to = Targets[Stagings[k].pair]

\* C16's case: two pairs were staged, the last pair first, a third was renamed
\* directly after them, and the second pass renamed both staged pairs
C16_Witness ==
    /\ Finished
    /\ Len(log) = 5
    /\ log[1].kind = "temp" /\ log[1].pair = 3
    /\ log[2].kind = "temp" /\ log[2].pair = 2
    /\ log[3].kind = "direct"
    /\ log[4].kind = "final" /\ log[4].pair = 3
    /\ log[5].kind = "final" /\ log[5].pair = 2


\* the position among the failed attempts of the attempt at position k of the log
FailureIndex(k) == Cardinality({j \in 1..k : ~log[j].ok})

\* C17: failed staging is not deferred.  A pair whose temporary name could not
\* be generated, or whose rename to the temporary name failed, has exactly one
\* failure recorded and no second-pass rename; the second pass issues a rename
\* from the temporary name to the target for exactly the pairs whose staging
\* rename succeeded.
C17_FailedStaging ==
    Renaming =>
        /\ Len(failures) = Len(FailedAttempts)
        /\ \A i \in 1..Len(orig) :
            LET stagings == LogOf(i, {"temp", "tmpname"})
                finals == LogOf(i, {"final"})
                succeeded == {k \in stagings : log[k].ok}
            IN  /\ \A k \in stagings :
                    ~log[k].ok =>
                        /\ finals = {}
                        /\ {j \in 1..Len(log) : log[j].pair = i /\ ~log[j].ok} = {k}
                        /\ failures[FailureIndex(k)] = ErrorOf(log[k])
                /\ Cardinality(finals) <= Cardinality(succeeded)
                /\ Finished => Cardinality(finals) = Cardinality(succeeded)
                /\ \A k \in finals : \E j \in succeeded :
                        /\ j < k
                        /\ log[k].from = log[j].to
                        /\ log[k].to = Targets[i]

\* C17's case: the staging rename of the last pair failed, the next pair was
\* staged, and the second pass renamed that one only
C17_Witness ==
    /\ Finished
    /\ Len(log) = 4
    /\ log[1].kind = "temp" /\ log[1].pair = 3 /\ ~log[1].ok
    /\ log[2].kind = "temp" /\ log[2].pair = 2 /\ log[2].ok
    /\ log[3].kind = "direct"
    /\ log[4].kind = "final" /\ log[4].pair = 2
    /\ Len(failures) = 1


\* two different entries have the same target name
DuplicateTargets == \E i, j \in 1..Len(orig) : i # j /\ Targets[i] = Targets[j]

\* the positions of the log that hold a rename onto the name t
RenamesOnto(t) == {k \in 1..Len(log) : log[k].kind # "tmpname" /\ log[k].to = t}

\* a run with duplicate targets records no failure and returns Ok, and a name
\* that is the target of several entries holds the entry of the pair renamed
\* onto it last, while the other entries with that target are nowhere
LaterWins ==
    /\ result = "Ok"
    /\ failures = <<>>
    /\ \A i, j \in 1..Len(orig) :
        (i # j /\ Targets[i] = Targets[j]) =>
            LET t == Targets[i]
                last == CHOOSE k \in RenamesOnto(t) : \A l \in RenamesOnto(t) : l <= k
                winner == log[last].pair
            IN  /\ RenamesOnto(t) # {}
                /\ Targets[winner] = t
                /\ fs[t] = orig[winner]
                /\ \A l \in {i, j} \ {winner} : \A n \in AllNames : fs[n] # orig[l]

\* C18: duplicate targets.  When T holds the same name for two different
\* entries and the renames succeed, ere records no failure and returns Ok, the
\* entries are renamed onto the same name, and afterwards that name holds the
\* entry renamed later while the earlier one is lost.
C18_DuplicateTargets ==
    (Finished /\ DuplicateTargets /\ AllSucceeded) => LaterWins


\* C19: new_tmp_file_name never returns a pending name.  In every step of ere
\* that asks for a temporary name, a name that is returned is none of the
\* pending list; an error is returned only when draws collided with the
\* pending list, and then one Error::Io is recorded, nothing is renamed or
\* staged and the entry stays at its original name.
C19_NoPendingName ==
    [][(log' # log /\ Last(log').kind \in {"temp", "tmpname"}) =>
        LET c == Last(log')
            pending == Front(file_names)
        IN  /\ file_names' = pending
            /\ c.kind = "temp" =>
                    /\ c.to \in TmpNames
                    /\ ~Contains(pending, c.to)
            /\ c.kind = "tmpname" =>
                    /\ \E n \in TmpNames : Contains(pending, n)
                    /\ failures' = Append(failures, IoError)
                    /\ temp_file_names' = temp_file_names
                    /\ fs' = fs
                    /\ fs'[c.from] = c.from]_vars

\* C19's case: with a temporary-looking name pending, one pair was staged at
\* another temporary name and the next pair got no name: one Error::Io, the
\* entry still at its original name
C19_Witness ==
    /\ pc = "rename"
    /\ Len(orig) = 3
    /\ Len(log) = 2
    /\ log[1].kind = "temp" /\ log[1].ok
    /\ Contains(PendingAt(3), TmpX) /\ log[1].to # TmpX
    /\ log[2].kind = "tmpname"
    /\ failures = <<IoError>>
    /\ fs[orig[2]] = orig[2]


\* the rename calls issued so far
RenameCalls == {k \in 1..Len(log) : log[k].kind \in {"temp", "direct", "final"}}

\* the directory and the number of times each entry was moved, after the first
\* k attempts of the log
RECURSIVE Replay(_)
Replay(k) ==
    IF k = 0 THEN [f |-> Fs0, n |-> [e \in dir |-> 0]]
    ELSE LET before == Replay(k - 1)
             c == log[k]
         IN  IF c.ok /\ c.kind # "tmpname" /\ c.from # c.to
             THEN [f |-> Renamed(before.f, c.from, c.to),
                   n |-> [before.n EXCEPT ![before.f[c.from]] = @ + 1]]
             ELSE before

\* the number of times the entry e was renamed
TimesRenamed(e) == Replay(Len(log)).n[e]

\* what the rename pass has left to do: two steps at most for a pending pair,
\* one for a staged pair, and the return
Variant ==
    IF pc = "rename" THEN 2 * Len(file_names) + Len(temp_file_names) + 1 ELSE 0

\* C20: at most 2 * Len(O) rename calls.  A pair causes at most one rename
\* call in the first pass and at most one in the second, so ere returns after
\* at most 2 * Len(O) rename calls, and no entry is renamed more than twice.
C20_RenamedTwiceAtMost ==
    Renaming =>
        /\ Cardinality(RenameCalls) <= 2 * Len(orig)
        /\ \A i \in 1..Len(orig) :
            /\ Cardinality(LogOf(i, {"temp", "direct"})) <= 1
            /\ Cardinality(LogOf(i, {"final"})) <= 1
        /\ \A e \in dir : TimesRenamed(e) <= 2

\* C20, the part on termination and on rename calls: every iteration of the
\* loop removes one pair from the pending list and every step of the pass
\* lowers Variant; a pair causes at most one rename call in the first pass, of
\* its own entry, and at most one in the second, at most 2 * Len(O) calls in
\* all; and the pass, once begun, returns.
C20_Terminates ==
    /\ [](Renaming =>
            /\ Cardinality(RenameCalls) <= 2 * Len(orig)
            /\ \A i \in 1..Len(orig) :
                /\ Cardinality(LogOf(i, {"temp", "direct"})) <= 1
                /\ Cardinality(LogOf(i, {"final"})) <= 1
                /\ \A k \in LogOf(i, {"temp", "direct"}) : log[k].from = orig[i])
    /\ [][pc = "rename" =>
            /\ Variant' < Variant
            /\ file_names # <<>> => /\ file_names' = Front(file_names)
                                    /\ new_file_names' = Front(new_file_names)
                                    /\ Len(log') <= Len(log) + 1]_vars
    /\ (pc = "rename") ~> (pc = "done")

====
